---- MODULE Spec2Model ----
(***************************************************************************)
(* A model of the alternative-frontend single-page application:            *)
(*   - AppComponent (submitPayment, updatePaymentStatus, payment status    *)
(*     polling, loadRecentPayments, wallet events, logout),                *)
(*   - AuthService (login, logout, refreshToken, restoreAuthState),        *)
(*   - WalletService (connectWallet, disconnectWallet) and                 *)
(*     AppComponent.connectWallet,                                         *)
(*   - authInterceptor.                                                    *)
(* Every await / subscription callback of the TypeScript code is one       *)
(* action: the code between two suspension points runs atomically          *)
(* (JavaScript is single-threaded), the suspension points interleave.      *)
(***************************************************************************)
EXTENDS Integers, Sequences, FiniteSets, TLC

(***************************************************************************)
(* Arbitrary-precision naturals (JavaScript BigInt): little-endian         *)
(* sequences of base-16 digits without leading zeros; <<>> is zero.        *)
(***************************************************************************)
RECURSIVE BigFromInt(_)
BigFromInt(n) == IF n = 0 THEN <<>> ELSE <<n % 16>> \o BigFromInt(n \div 16)

RECURSIVE BigMulCarry(_, _, _)
BigMulCarry(a, k, c) ==
  IF a = <<>>
    THEN BigFromInt(c)
    ELSE LET t == Head(a) * k + c
         IN  <<t % 16>> \o BigMulCarry(Tail(a), k, t \div 16)

\* a * k for a small factor k (k * 15 + carry stays below 2^31)
BigMulSmall(a, k) == IF k = 0 THEN <<>> ELSE BigMulCarry(a, k, 0)

RECURSIVE BigAddCarry(_, _, _)
BigAddCarry(a, b, c) ==
  IF a = <<>> /\ b = <<>>
    THEN BigFromInt(c)
    ELSE LET x == IF a = <<>> THEN 0 ELSE Head(a)
             y == IF b = <<>> THEN 0 ELSE Head(b)
             t == x + y + c
         IN  <<t % 16>> \o BigAddCarry(IF a = <<>> THEN a ELSE Tail(a),
                                       IF b = <<>> THEN b ELSE Tail(b),
                                       t \div 16)

BigAdd(a, b) == BigAddCarry(a, b, 0)

RECURSIVE BigLessFrom(_, _, _)
BigLessFrom(a, b, i) ==
  IF i = 0 THEN FALSE
  ELSE IF a[i] # b[i] THEN a[i] < b[i]
  ELSE BigLessFrom(a, b, i - 1)

\* a < b
BigLess(a, b) ==
  IF Len(a) # Len(b) THEN Len(a) < Len(b) ELSE BigLessFrom(a, b, Len(a))

RECURSIVE BigPow10(_, _)
\* a * 10^e
BigPow10(a, e) ==
  IF e = 0 \/ a = <<>> THEN a ELSE BigPow10(BigMulSmall(a, 10), e - 1)

(***************************************************************************)
(* Strings are sequences of one-character strings.                         *)
(***************************************************************************)
HexChars == <<"0", "1", "2", "3", "4", "5", "6", "7",
              "8", "9", "a", "b", "c", "d", "e", "f">>

IsHexChar(c) == \E i \in 1..16 : HexChars[i] = c
IsDecChar(c) == \E i \in 1..10 : HexChars[i] = c
CharVal(c) == (CHOOSE i \in 1..16 : HexChars[i] = c) - 1

\* BigInt.prototype.toString(16)
ToString16(a) ==
  IF a = <<>> THEN <<"0">>
  ELSE [i \in 1..Len(a) |-> HexChars[a[Len(a) + 1 - i] + 1]]

\* String.prototype.startsWith('0x')
StartsWith0x(s) == Len(s) >= 2 /\ s[1] = "0" /\ s[2] = "x"

\* String.prototype.slice(2)
Slice2(s) == IF Len(s) <= 2 THEN <<>> ELSE SubSeq(s, 3, Len(s))

RECURSIVE StripZeros(_)
StripZeros(a) ==
  IF a = <<>> THEN a
  ELSE IF a[Len(a)] = 0 THEN StripZeros(SubSeq(a, 1, Len(a) - 1))
  ELSE a

RECURSIVE DecDigitsToBig(_, _)
\* Horner evaluation of a string of decimal digits
DecDigitsToBig(s, acc) ==
  IF s = <<>> THEN acc
  ELSE DecDigitsToBig(Tail(s), BigAdd(BigMulSmall(acc, 10), BigFromInt(CharVal(Head(s)))))

(***************************************************************************)
(* BigInt(string): a '0x' prefix selects hexadecimal, otherwise the string *)
(* must consist of decimal digits; anything else is a SyntaxError.         *)
(***************************************************************************)
ParseBigInt(s) ==
  IF StartsWith0x(s)
    THEN IF Len(s) > 2 /\ \A i \in 3..Len(s) : IsHexChar(s[i])
           THEN [ok |-> TRUE,
                 val |-> StripZeros([i \in 1..(Len(s) - 2) |-> CharVal(s[Len(s) + 1 - i])])]
           ELSE [ok |-> FALSE, val |-> <<>>]
    ELSE IF \A i \in 1..Len(s) : IsDecChar(s[i])
           THEN [ok |-> TRUE, val |-> DecDigitsToBig(s, <<>>)]
           ELSE [ok |-> FALSE, val |-> <<>>]

(***************************************************************************)
(* JavaScript numbers (IEEE 754 doubles), for zero and the positive normal *)
(* values: a number is kept as the natural n with value n / 2^80, and      *)
(* every operation rounds its exact result to 53 significant bits, to      *)
(* nearest, ties to even.                                                  *)
(***************************************************************************)
MantissaBits == 53

RECURSIVE BigDivFrom(_, _, _, _)
\* long division of the digits a[1..i] by d, the remainder r carried in from
\* the digits above
BigDivFrom(a, d, i, r) ==
  IF i = 0 THEN [q |-> <<>>, r |-> r]
  ELSE LET t == r * 16 + a[i]
           rest == BigDivFrom(a, d, i - 1, t % d)
       IN  [q |-> rest.q \o <<t \div d>>, r |-> rest.r]

\* quotient and remainder of a by a small divisor d (d * 16 stays below 2^31)
BigDivSmall(a, d) ==
  LET res == BigDivFrom(a, d, Len(a), 0)
  IN  [q |-> StripZeros(res.q), r |-> res.r]

\* the number of significant bits of a
BitLen(a) ==
  IF a = <<>> THEN 0
  ELSE 4 * (Len(a) - 1) + (IF a[Len(a)] >= 8 THEN 4 ELSE IF a[Len(a)] >= 4 THEN 3
                           ELSE IF a[Len(a)] >= 2 THEN 2 ELSE 1)

\* a * 2^n
BigShl(a, n) ==
  IF a = <<>> THEN a ELSE [i \in 1..(n \div 4) |-> 0] \o BigMulSmall(a, 2 ^ (n % 4))

\* floor(a / 2^n), and whether a one bit was shifted out
BigShr(a, n) ==
  LET k == n \div 4
      low == IF k >= Len(a) THEN a ELSE SubSeq(a, 1, k)
      high == IF k >= Len(a) THEN <<>> ELSE SubSeq(a, k + 1, Len(a))
      res == BigDivSmall(high, 2 ^ (n % 4))
  IN  [q |-> res.q, sticky |-> res.r # 0 \/ \E i \in 1..Len(low) : low[i] # 0]

\* a, or a plus a fraction when inexact, rounded to 53 significant bits
RoundToDouble(a, inexact) ==
  LET s == BitLen(a) - MantissaBits
  IN  IF s <= 0 THEN a
      ELSE LET sh == BigShr(a, s - 1)
               half == sh.q[1] % 2 = 1
               q == BigShr(sh.q, 1).q
               up == half /\ (sh.sticky \/ inexact \/ q[1] % 2 = 1)
           IN  BigShl(IF up THEN BigAdd(q, <<1>>) ELSE q, s)

\* parseFloat of the decimal string of m * 10^e: the double nearest to it
parseFloat(amt) ==
  LET n == BigPow10(BigFromInt(amt[1]), IF amt[2] > 0 THEN amt[2] ELSE 0)
      d == 10 ^ (IF amt[2] < 0 THEN 0 - amt[2] ELSE 0)
      res == BigDivSmall(BigShl(n, 80), d)
  IN  RoundToDouble(res.q, res.r # 0)

(***************************************************************************)
(* Form amounts.  An amount is <<m, e>>, the decimal number m * 10^e (ETH) *)
(* typed into the form.                                                    *)
(*   <<25, -2>>   0.25 (the form's default), wei 0x3782dace9d90000         *)
(*   <<18, -4>>   0.0018, wei 0x6651728988000 (no hex letter)              *)
(*   <<11, -1>>   1.1: neither 1.1 nor the product is exact in doubles     *)
(*   <<1, 300>>   1e300: the product overflows to Infinity                 *)
(*   <<0, 0>>     0: below Validators.min(0.0001)                          *)
(***************************************************************************)
Amounts == {<<25, -2>>, <<18, -4>>, <<11, -1>>, <<1, 300>>, <<0, 0>>}

WeiDecimals == 18
MaxDoubleExp10 == 308
MinAmountExp10 == 4

\* Validators.required, Validators.min(0.0001) on amount
AmountValid(amt) == amt[1] >= 1 /\ amt[2] >= 0 - MinAmountExp10

\* parseFloat(amount) * 1e18 is Infinity
ProductOverflows(amt) == amt[2] + WeiDecimals > MaxDoubleExp10

\* BigInt(Math.floor(parseFloat(amount) * 1e18)) as '0x' + toString(16); both
\* branches of the code (ETH and any other currency) compute the same value,
\* and BigInt(Infinity) throws a RangeError.  1e18 is a double.
convertToWei(amt, currency) ==
  IF ProductOverflows(amt)
    THEN [ok |-> FALSE, hex |-> <<>>]
    ELSE LET product == RoundToDouble(BigPow10(parseFloat(amt), WeiDecimals), FALSE)
             floor == BigShr(product, 80).q
         IN  [ok |-> TRUE, hex |-> <<"0", "x">> \o ToString16(floor)]

(***************************************************************************)
(* Program constants and bounds.                                           *)
(***************************************************************************)
maxAttempts == 60
maxPolls == 30
gasEstimate == 21000
PaymentsShown == 10

\* number of submitPayment invocations in one behaviour
MaxSubs == 2
\* number of them that run where invocations follow one another
MaxInTurn == 1
\* outstanding requests of one polling interval, per kind
MaxInFlight == 2
\* timer ticks of one interval beyond maxPolls that the model follows
MaxExtraPolls == 1
\* timer ticks of one interval that the model follows where a payment is polled again
MaxRepollTicks == 1

Subs == 1..MaxSubs

NoHash == <<"none", 0>>
NoText == ""
PendingId(s) == <<"pending", s>>
ServerId(s) == <<"srv", s>>
TxHashOf(s) == <<"tx", s>>
Address == "0xA11ce"
NoAddress == "undefined"
Token == "jwt-1"
Tokens == {"jwt-1", "jwt-2"}
Emails == {"a@x", "b@x"}
NoItem == "null"

\* values a provider returns for eth_getBalance: 10^13, 10^15, 10^18 wei
Balances == { <<"0", "x", "9", "1", "8", "4", "e", "7", "2", "a", "0", "0", "0">>,
              <<"0", "x", "3", "8", "d", "7", "e", "a", "4", "c", "6", "8", "0", "0", "0">>,
              <<"0", "x", "d", "e", "0", "b", "6", "b", "3", "a", "7", "6", "4", "0", "0", "0", "0">> }
\* values a provider returns for eth_gasPrice: 1 gwei
GasPrices == { <<"0", "x", "3", "b", "9", "a", "c", "a", "0", "0">> }
ProviderError == <<"error">>

\* receipt.status as a provider may report it; "num1" is the number 1
ReceiptStatuses == {"0x1", "0x01", "num1", "0x0", "num0", "undefined"}
Currencies == {"ETH", "USDC"}

\* convertToWei for the values the form can hold, computed once
weiOfForm == [amt \in Amounts, currency \in Currencies |-> convertToWei(amt, currency)]

VARIABLES
  localStorage,       \* [access_token, user_email]: stored value or NoItem
  authState,          \* AuthService.authState
  authReqs,           \* auth requests in flight: {[kind, email]}
  sent,               \* the request authInterceptor forwarded last
  provider,           \* window.ethereum is present
  walletState,        \* [connected, address]
  refreshing,         \* some refreshWallet call awaits getBalance
  walletCheck,        \* the constructor effect's timer is pending
  payments,           \* the payments signal
  submittingPayment,  \* the submittingPayment signal
  sub,                \* submitPayment invocations
  intervals,          \* window.setInterval timers of startPaymentStatusPolling
  paymentPollingIntervals, \* the Map, as a set of <<paymentId, intervalId>>
  loads,              \* loadRecentPayments requests awaiting their response
  authOutcome,        \* what the subscriber of the last auth request received
  walletAddressItem,  \* localStorage item 'walletAddress': stored address or NoItem
  conn,               \* the invocation of WalletService.connectWallet
  disconnecting,      \* some disconnectWallet call awaits wallet_requestPermissions
  connectingWallet,   \* the connectingWallet signal
  appConn             \* the invocation of AppComponent.connectWallet

vars == <<localStorage, authState, authReqs, sent, authOutcome, provider, walletState,
          refreshing, walletCheck, payments, submittingPayment, sub, intervals,
          paymentPollingIntervals, loads, walletAddressItem, conn,
          disconnecting, connectingWallet, appConn>>

walletVars == <<walletAddressItem, conn, disconnecting, connectingWallet, appConn>>
authVars == <<localStorage, authState, authReqs, sent, authOutcome>>
appVars == <<provider, walletState, refreshing, walletCheck, payments,
             submittingPayment, sub, intervals, paymentPollingIntervals, loads>>

Min(a, b) == IF a < b THEN a ELSE b

(***************************************************************************)
(* Payments list helpers.                                                  *)
(***************************************************************************)
demoPayments ==
  << [id |-> <<"demo", 1>>, status |-> "confirmed", transaction_hash |-> <<"demo", 1>>,
      createdAt |-> 0, description |-> NoText],
     [id |-> <<"demo", 2>>, status |-> "pending", transaction_hash |-> NoHash,
      createdAt |-> 0 - 20, description |-> NoText],
     [id |-> <<"demo", 3>>, status |-> "failed", transaction_hash |-> NoHash,
      createdAt |-> 0 - 55, description |-> NoText] >>

\* Array.prototype.slice(0, 10)
Slice10(list) == SubSeq(list, 1, Min(Len(list), PaymentsShown))

updatePaymentStatus(list, paymentId, status, errorMessage, txHash) ==
  [i \in 1..Len(list) |->
     IF list[i].id = paymentId
       THEN [list[i] EXCEPT
               !.status = status,
               !.transaction_hash = IF txHash # NoHash THEN txHash ELSE @,
               !.description = IF errorMessage # NoText /\ status = "failed"
                                 THEN errorMessage ELSE @]
       ELSE list[i]]

RECURSIVE InsertDesc(_, _)
\* p goes behind every element that is not older than it (a stable sort)
InsertDesc(sorted, p) ==
  IF sorted = <<>> THEN <<p>>
  ELSE IF Head(sorted).createdAt >= p.createdAt
         THEN <<Head(sorted)>> \o InsertDesc(Tail(sorted), p)
         ELSE <<p>> \o sorted

RECURSIVE SortNewestFirst(_)
\* .sort((a, b) => new Date(b.createdAt) - new Date(a.createdAt))
SortNewestFirst(list) ==
  IF Len(list) <= 1 THEN list
  ELSE InsertDesc(SortNewestFirst(SubSeq(list, 1, Len(list) - 1)), list[Len(list)])

\* a variant of isSuccess that accepts '0x1' only
isSuccessOnly0x1(status) == status = "0x1"

\* line 462: receipt.status === '0x1' || receipt.status === '0x01' || receipt.status === 1
isSuccess(status) == status \in {"0x1", "0x01", "num1"}

(***************************************************************************)
(* AuthService state.                                                      *)
(***************************************************************************)
\* what a subscriber of an auth request has received: the request's kind, the
\* answer of the HTTP request (http), the notification delivered (result: next
\* or error) and the access_token of the body delivered with next
noOutcome == [kind |-> "none", http |-> "none", result |-> "none", access_token |-> NoItem]
outcome(kind, http, result, access_token) ==
  [kind |-> kind, http |-> http, result |-> result, access_token |-> access_token]

loggedOut == [isAuthenticated |-> FALSE, accessToken |-> NoItem, userEmail |-> NoItem]

\* AuthService.restoreAuthState, applied to the constructor's initial state
restoreAuthState(storage) ==
  IF storage.access_token # NoItem
    THEN [isAuthenticated |-> TRUE, accessToken |-> storage.access_token,
          userEmail |-> storage.user_email]
    ELSE loggedOut

\* AuthService.clearAuthState
clearAuthState ==
  /\ localStorage' = [access_token |-> NoItem, user_email |-> NoItem]
  /\ authState' = loggedOut

isAuthenticated == authState.isAuthenticated

disconnected == [connected |-> FALSE, address |-> NoAddress]

(***************************************************************************)
(* submitPayment invocations.  sub[s].pc is the suspension point the       *)
(* invocation is at; reqs, rcptReqs, balance, gasPrice and intent record   *)
(* the requests it has made and the answers it got.                        *)
(***************************************************************************)
newSub == [pc |-> "init", amt |-> <<0, 0>>, recipientOk |-> FALSE,
           currency |-> "ETH", backendStatus |-> NoItem, amountHex |-> <<>>,
           balanceWei |-> <<>>, amountInWei |-> <<>>, balance |-> <<>>,
           gasPrice |-> <<>>, txHash |-> NoHash, attempts |-> 0,
           receipt |-> NoItem, transactionConfirmed |-> FALSE, reqs |-> {},
           rcptReqs |-> 0, intent |-> NoHash]

FinishedPcs == {"invalidForm", "notConnected", "noProvider", "exception", "insufficient",
                "txRejected", "txFailed", "reverted", "synced", "backendFailed"}

\* every earlier invocation has returned and its subscription has ended
InTurn(s) == s <= MaxInTurn /\ \A r \in Subs : r < s => sub[r].pc \in FinishedPcs

\* the statements of submitPayment up to line 350 have run, the try block has not
\* (pc "inserted"), or its wait loop has ended and line 452 has not run (pc
\* "afterLoop"): no other callback runs in between
Busy == \E s \in Subs : sub[s].pc \in {"inserted", "afterLoop"}

\* the invocation has returned: its locals are dead, the record of its requests stays
finish(rec, pc) ==
  [newSub EXCEPT !.pc = pc, !.reqs = rec.reqs, !.intent = rec.intent]

(***************************************************************************)
(* WalletService.  Chain ids are strings of characters; conn holds the     *)
(* suspension point of connectWallet, the requests it has made and the     *)
(* answers it got.                                                         *)
(***************************************************************************)
OtherAddress == "0xB0b"
ShortAddress == "0xBad"
\* what eth_requestAccounts resolves to: a list of accounts, or null
NullAccounts == <<"null">>
NoAnswer == <<"none">>
AccountLists == { <<>>, <<Address>>, <<OtherAddress, Address>>, <<ShortAddress>> }
\* what eth_chainId resolves to; the last is undefined
UndefinedChain == <<"undefined">>
ChainIds == { <<"0", "x", "1">>, <<"0", "x", "A", "A", "3", "6", "a", "7">>,
              <<"0", "x", "5", "3", "9">>, UndefinedChain }
\* error codes of a rejected wallet_requestPermissions; 0 stands for a resolved request
UserRejected == 4001
RequestPending == 0 - 32002
Granted == 0
PermissionAnswers == {Granted, UserRejected, RequestPending}

UpperHex == <<"A", "B", "C", "D", "E", "F">>
LowerHex == <<"a", "b", "c", "d", "e", "f">>
LowerChar(c) ==
  IF \E i \in 1..Len(UpperHex) : UpperHex[i] = c
  THEN LowerHex[CHOOSE i \in 1..Len(UpperHex) : UpperHex[i] = c]
  ELSE c
\* String.prototype.toLowerCase
toLowerCase(str) == [i \in 1..Len(str) |-> LowerChar(str[i])]

NETWORK_MAP ==
  [k \in { <<"0", "x", "1">>, <<"0", "x", "5">>,
           <<"0", "x", "a", "a", "3", "6", "a", "7">>, <<"0", "x", "8", "9">>,
           <<"0", "x", "1", "3", "8", "8", "1">>, <<"0", "x", "a", "4", "b", "1">>,
           <<"0", "x", "a">> } |->
     CASE k = <<"0", "x", "1">> -> "Ethereum Mainnet"
       [] k = <<"0", "x", "5">> -> "Goerli Testnet"
       [] k = <<"0", "x", "a", "a", "3", "6", "a", "7">> -> "Sepolia Testnet"
       [] k = <<"0", "x", "8", "9">> -> "Polygon Mainnet"
       [] k = <<"0", "x", "1", "3", "8", "8", "1">> -> "Polygon Mumbai"
       [] k = <<"0", "x", "a", "4", "b", "1">> -> "Arbitrum One"
       [] OTHER -> "Optimism"]

\* line 95: NETWORK_MAP[chainId?.toLowerCase() ?? ''] ?? 'Unknown Network'
networkNameOf(chainId) ==
  LET key == IF chainId = UndefinedChain THEN <<>> ELSE toLowerCase(chainId)
  IN  IF key \in DOMAIN NETWORK_MAP THEN NETWORK_MAP[key] ELSE "Unknown Network"

NoConnection == [address |-> NoAddress, chainId |-> UndefinedChain, networkName |-> NoText]
newConn == [pc |-> "idle", force |-> FALSE, asked |-> {}, permission |-> Granted,
            accounts |-> NoAnswer, chainId |-> NoAnswer, result |-> NoConnection]
ConnEnded == {"returned", "thrown"}

(***************************************************************************)
(* AppComponent.connectWallet.  An address is a name; Address and          *)
(* OtherAddress stand for well-formed addresses of 42 characters in the    *)
(* provider's mixed-case form, ShortAddress for a string of 5 characters.  *)
(* The backend's wallet list holds addresses in lower case.                *)
(***************************************************************************)
AddressChars == 42
\* connection.address.length
lengthOf(address) == IF address = ShortAddress THEN 5 ELSE AddressChars
\* toLowerCase on an address
lowerOf(address) ==
  CASE address = Address -> "0xa11ce"
    [] address = OtherAddress -> "0xb0b"
    [] address = ShortAddress -> "0xbad"
    [] OTHER -> address
\* what GET /wallet/balances answers with: the addresses of the user's wallets
WalletLists == { {}, {"0xa11ce"}, {"0xb0b"} }
\* what POST /wallet/connect answers with: an error status, an empty body, or a
\* body with its success field true or false
LinkErrors == {"409", "500"}
LinkAnswers == LinkErrors \cup {"null", "success", "noSuccess"}
newAppConn == [pc |-> "idle", address |-> NoAddress, linked |-> FALSE, link |-> NoItem]
AppConnEnded == {"toLogin", "noMetaMask", "invalidAddress", "linkFailed", "failed",
                 "connected"}

pendingPayment(s) ==
  [id |-> PendingId(s), status |-> "pending", transaction_hash |-> NoHash,
   createdAt |-> s, description |-> NoText]

Init ==
  /\ localStorage \in { [access_token |-> NoItem, user_email |-> NoItem],
                        [access_token |-> Token, user_email |-> "a@x"] }
  /\ authState = restoreAuthState(localStorage)
  /\ authReqs = {}
  /\ sent = [url |-> <<>>, token |-> NoItem, authorization |-> NoItem]
  /\ authOutcome = noOutcome
  /\ provider \in BOOLEAN
  /\ walletState = disconnected
  /\ refreshing = FALSE
  /\ walletCheck = authState.isAuthenticated
  /\ payments = IF authState.isAuthenticated THEN <<>> ELSE demoPayments
  /\ loads = IF authState.isAuthenticated THEN 1 ELSE 0
  /\ submittingPayment = FALSE
  /\ sub = [s \in Subs |-> newSub]
  /\ intervals = [s \in Subs |-> [state |-> "none", paymentId |-> PendingId(s),
                                  txHash |-> NoHash, pollCount |-> 0,
                                  rcpts |-> 0, lists |-> 0]]
  /\ paymentPollingIntervals = {}
  /\ walletAddressItem = NoItem
  /\ conn = newConn
  /\ disconnecting = FALSE
  /\ connectingWallet = FALSE
  /\ appConn = newAppConn

\* a variant of insertOptimistic that appends
insertAtTail(p, existing) == Slice10(existing \o <<p>>)

\* line 350: [pendingPayment, ...existing].slice(0, 10)
insertOptimistic(p, existing) == Slice10(<<p>> \o existing)

\* lines 324-350: the validation, the optimistic record
SubmitPayment(s) ==
  /\ ~Busy
  /\ sub[s].pc = "init"
  /\ \A r \in Subs : r < s => sub[r].pc # "init"
  /\ \E amt \in Amounts, currency \in Currencies, recipientOk \in BOOLEAN :
       IF ~(AmountValid(amt) /\ recipientOk)
         THEN /\ sub' = [sub EXCEPT ![s].pc = "invalidForm", ![s].amt = amt,
                                       ![s].recipientOk = recipientOk]
              /\ UNCHANGED <<payments, submittingPayment>>
       ELSE IF ~walletState.connected
         THEN /\ sub' = [sub EXCEPT ![s].pc = "notConnected", ![s].amt = amt,
                                       ![s].recipientOk = recipientOk]
              /\ UNCHANGED <<payments, submittingPayment>>
       ELSE /\ submittingPayment' = TRUE
            /\ payments' = insertOptimistic(pendingPayment(s), payments)
            /\ sub' = [sub EXCEPT ![s].pc = "inserted", ![s].amt = amt,
                                  ![s].recipientOk = recipientOk,
                                  ![s].currency = currency]
  /\ UNCHANGED <<walletVars, authVars, provider, walletState, refreshing, walletCheck,
                 intervals, paymentPollingIntervals, loads>>

\* a variant of MarkFailed that leaves submittingPayment as it is
MarkFailedStillSubmitting(s, msg) ==
  /\ payments' = updatePaymentStatus(payments, PendingId(s), "failed", msg, NoHash)
  /\ UNCHANGED submittingPayment

\* updatePaymentStatus(pendingPayment.id, 'failed', msg); submittingPayment.set(false)
MarkFailed(s, msg) ==
  /\ payments' = updatePaymentStatus(payments, PendingId(s), "failed", msg, NoHash)
  /\ submittingPayment' = FALSE

\* lines 397-408: eth_sendTransaction is requested
requestSend(rec) ==
  [rec EXCEPT !.pc = "awaitSendTx", !.reqs = @ \cup {"eth_sendTransaction"}]

\* lines 352-370: the provider check, convertToWei, eth_getBalance is requested
SubmitPrepare(s) ==
  /\ sub[s].pc = "inserted"
  /\ LET wei == weiOfForm[sub[s].amt, sub[s].currency] IN
       IF ~provider
         THEN /\ MarkFailed(s, "MetaMask not available")
              /\ sub' = [sub EXCEPT ![s] = finish(@, "noProvider")]
       ELSE IF ~wei.ok
         THEN /\ MarkFailed(s, "RangeError")
              /\ sub' = [sub EXCEPT ![s] = finish(@, "exception")]
       ELSE /\ sub' = [sub EXCEPT ![s].pc = "awaitBalance", ![s].amountHex = wei.hex,
                                  ![s].reqs = @ \cup {"eth_getBalance"}]
            /\ UNCHANGED <<payments, submittingPayment>>
  /\ UNCHANGED <<walletVars, authVars, provider, walletState, refreshing, walletCheck,
                 intervals, paymentPollingIntervals, loads>>

\* s.startsWith('0x') ? s.slice(2) : s
Strip0x(s) == IF StartsWith0x(s) THEN Slice2(s) ELSE s

\* lines 372-381: eth_getBalance has answered
BalanceResponse(s) ==
  /\ ~Busy
  /\ sub[s].pc = "awaitBalance"
  /\ \E r \in Balances \cup {ProviderError} :
       LET balanceWei == ParseBigInt(<<"0", "x">> \o Strip0x(r))
           amountInWei == ParseBigInt(Strip0x(sub[s].amountHex))
       IN  IF r = ProviderError \/ ~balanceWei.ok \/ ~amountInWei.ok
             THEN sub' = [sub EXCEPT ![s] = requestSend(
                            [@ EXCEPT !.balance = IF r = ProviderError THEN <<>> ELSE r])]
             ELSE sub' = [sub EXCEPT ![s].pc = "awaitGasPrice",
                                     ![s].balance = r,
                                     ![s].balanceWei = balanceWei.val,
                                     ![s].amountInWei = amountInWei.val,
                                     ![s].reqs = @ \cup {"eth_gasPrice"}]
  /\ UNCHANGED <<walletVars, authVars, provider, walletState, refreshing, walletCheck, payments,
                 submittingPayment, intervals, paymentPollingIntervals, loads>>

\* lines 382-395: eth_gasPrice has answered
GasPriceResponse(s) ==
  /\ ~Busy
  /\ sub[s].pc = "awaitGasPrice"
  /\ \E g \in GasPrices \cup {ProviderError} :
       LET gasPrice == ParseBigInt(<<"0", "x">> \o Strip0x(g))
           totalNeeded == BigAdd(sub[s].amountInWei, BigMulSmall(gasPrice.val, gasEstimate))
       IN  IF g = ProviderError \/ ~gasPrice.ok
             THEN /\ sub' = [sub EXCEPT ![s] = requestSend(@)]
                  /\ UNCHANGED <<payments, submittingPayment>>
           ELSE IF BigLess(sub[s].balanceWei, totalNeeded)
             THEN /\ MarkFailed(s, "Insufficient balance")
                  /\ sub' = [sub EXCEPT ![s] = finish(@, "insufficient")]
           ELSE /\ sub' = [sub EXCEPT ![s] = requestSend([@ EXCEPT !.gasPrice = g])]
                /\ UNCHANGED <<payments, submittingPayment>>
  /\ UNCHANGED <<walletVars, authVars, provider, walletState, refreshing, walletCheck,
                 intervals, paymentPollingIntervals, loads>>

\* a variant of postIntent that posts no transaction hash
postIntentNoHash(rec) ==
  [rec EXCEPT !.pc = "awaitBackend", !.intent = NoHash,
              !.reqs = @ \cup {"createPaymentIntent"}]

\* lines 479-488: createPaymentIntent is posted with the transaction hash
postIntent(rec) ==
  [rec EXCEPT !.pc = "awaitBackend", !.intent = rec.txHash,
              !.reqs = @ \cup {"createPaymentIntent"}]

\* lines 432-437: one more eth_getTransactionReceipt request
requestReceipt(rec) ==
  [rec EXCEPT !.pc = "awaitReceipt", !.rcptReqs = @ + 1,
              !.reqs = @ \cup {"eth_getTransactionReceipt"}]

\* the locals of lines 337-384 are dead once eth_sendTransaction has answered
forget(rec) ==
  [rec EXCEPT !.amt = newSub.amt, !.recipientOk = newSub.recipientOk,
              !.currency = newSub.currency,
              !.amountHex = <<>>, !.balanceWei = <<>>, !.amountInWei = <<>>,
              !.balance = <<>>, !.gasPrice = <<>>]

\* lines 409-437: eth_sendTransaction has answered
SendTxResponse(s) ==
  /\ ~Busy
  /\ sub[s].pc = "awaitSendTx"
  /\ \E r \in {"hash", "rejected", "error"} :
       CASE r = "hash" ->
              /\ payments' = updatePaymentStatus(payments, PendingId(s), "pending",
                                                 NoText, TxHashOf(s))
              /\ sub' = [sub EXCEPT ![s] = requestReceipt([forget(@) EXCEPT !.txHash = TxHashOf(s)])]
              /\ UNCHANGED submittingPayment
         [] r = "rejected" ->
              /\ MarkFailed(s, "Transaction rejected by user")
              /\ sub' = [sub EXCEPT ![s] = finish(@, "txRejected")]
         [] r = "error" ->
              /\ MarkFailed(s, "Transaction failed")
              /\ sub' = [sub EXCEPT ![s] = finish(@, "txFailed")]
  /\ UNCHANGED <<walletVars, authVars, provider, walletState, refreshing, walletCheck,
                 intervals, paymentPollingIntervals, loads>>

\* lines 438-448: eth_getTransactionReceipt has answered
ReceiptResponse(s) ==
  /\ ~Busy
  /\ sub[s].pc = "awaitReceipt"
  /\ \E r \in {"error", NoItem} \cup ReceiptStatuses :
       IF r \in {"error", NoItem}
         THEN sub' = [sub EXCEPT ![s].pc = "sleeping"]
         ELSE sub' = [sub EXCEPT ![s].pc = "afterLoop", ![s].receipt = r]
  /\ UNCHANGED <<walletVars, authVars, provider, walletState, refreshing, walletCheck, payments,
                 submittingPayment, intervals, paymentPollingIntervals, loads>>

\* a variant of loopContinues that allows one more attempt
loopContinuesOneMore(attempts) == attempts <= maxAttempts

\* line 432: while (attempts < maxAttempts)
loopContinues(attempts) == attempts < maxAttempts

\* lines 448-450, 432-437: the 5 second timer has fired
SleepDone(s) ==
  /\ ~Busy
  /\ sub[s].pc = "sleeping"
  /\ IF loopContinues(sub[s].attempts + 1)
       THEN sub' = [sub EXCEPT ![s] = requestReceipt([@ EXCEPT !.attempts = @ + 1])]
       ELSE sub' = [sub EXCEPT ![s].pc = "afterLoop", ![s].attempts = @ + 1]
  /\ UNCHANGED <<walletVars, authVars, provider, walletState, refreshing, walletCheck, payments,
                 submittingPayment, intervals, paymentPollingIntervals, loads>>

\* lines 452-488: the loop has ended, with a receipt or without
AfterLoop(s) ==
  /\ sub[s].pc = "afterLoop"
  /\ IF sub[s].receipt = NoItem
       THEN /\ payments' = updatePaymentStatus(payments, PendingId(s), "pending",
                                               "Transaction pending confirmation", NoHash)
            /\ sub' = [sub EXCEPT ![s] = postIntent([@ EXCEPT !.attempts = 0])]
            /\ UNCHANGED submittingPayment
     ELSE IF isSuccess(sub[s].receipt)
       THEN /\ payments' = updatePaymentStatus(payments, PendingId(s), "confirmed",
                                               NoText, sub[s].txHash)
            /\ sub' = [sub EXCEPT ![s] = postIntent(
                         [@ EXCEPT !.attempts = 0, !.transactionConfirmed = TRUE])]
            /\ UNCHANGED submittingPayment
     ELSE /\ MarkFailed(s, "Transaction reverted on blockchain")
          /\ sub' = [sub EXCEPT ![s] = finish(@, "reverted")]
  /\ UNCHANGED <<walletVars, authVars, provider, walletState, refreshing, walletCheck,
                 intervals, paymentPollingIntervals, loads>>

\* payment.status of the backend's answer; "none": the answer has no status
BackendStatuses == {"none", "pending", "confirmed", "failed"}

\* the payment of invocation s as the backend reports it
backendPayment(s, status) ==
  [id |-> ServerId(s), status |-> status, transaction_hash |-> TxHashOf(s),
   createdAt |-> s, description |-> NoText]

\* a variant of finalStatus that takes the backend's status alone
finalStatusOfBackend(transactionConfirmed, backendStatus) ==
  IF backendStatus # "none" THEN backendStatus ELSE "pending"

\* lines 494-496
finalStatus(transactionConfirmed, backendStatus) ==
  IF transactionConfirmed THEN "confirmed"
  ELSE IF backendStatus # "none" THEN backendStatus ELSE "pending"

\* lines 499-510: the entry of the submission becomes the backend's payment
replaceByBackend(list, s, payment, status, txHash) ==
  [i \in 1..Len(list) |->
     IF list[i].id = PendingId(s)
       THEN [payment EXCEPT !.status = status, !.transaction_hash = txHash]
       ELSE list[i]]

\* lines 574-586, 685: startPaymentStatusPolling(paymentId, txHash); the new
\* interval is the one of invocation s
startPaymentStatusPolling(s, paymentId, txHash) ==
  LET existing == {e \in paymentPollingIntervals : e[1] = paymentId} IN
  /\ intervals' = [i \in Subs |->
       IF i = s
         THEN [state |-> "active", paymentId |-> paymentId, txHash |-> txHash,
               pollCount |-> 0, rcpts |-> 0, lists |-> 0]
       ELSE IF \E e \in existing : e[2] = i
         THEN [intervals[i] EXCEPT !.state = "cleared"]
       ELSE intervals[i]]
  /\ paymentPollingIntervals' = (paymentPollingIntervals \ existing) \cup {<<paymentId, s>>}

\* lines 490-529 and 547: the next handler of createPaymentIntent followed by
\* complete (HttpClient completes right after the response); the response
\* carries the backend's payment of invocation r
BackendAnswers(s, r) ==
  /\ ~Busy
  /\ sub[s].pc = "awaitBackend"
  /\ \E backendStatus \in BackendStatuses :
       LET payment == backendPayment(r, backendStatus)
           final == finalStatus(sub[s].transactionConfirmed, backendStatus)
           replaced == replaceByBackend(payments, s, payment, final, sub[s].txHash)
       IN  \* loadRecentPayments(), lines 701-711
           /\ IF ~isAuthenticated
                THEN payments' = demoPayments /\ UNCHANGED loads
                ELSE payments' = replaced /\ loads' = loads + 1
           /\ IF final = "pending"
                THEN startPaymentStatusPolling(s, payment.id, sub[s].txHash)
                ELSE UNCHANGED <<intervals, paymentPollingIntervals>>
           /\ sub' = [sub EXCEPT ![s] = [finish(@, "synced") EXCEPT
                                           !.backendStatus = backendStatus]]
  /\ submittingPayment' = FALSE
  /\ UNCHANGED <<walletVars, authVars, provider, walletState, refreshing, walletCheck>>

\* the backend answers the intent of invocation s with a new payment
BackendSuccess(s) == BackendAnswers(s, s)

\* the backend answers the intent of invocation s with the payment it holds
\* for an earlier invocation
BackendSuccessKnown(s) ==
  \E r \in Subs : r < s /\ sub[r].pc = "synced" /\ BackendAnswers(s, r)

\* a variant of BackendError that marks the payment failed
BackendErrorMarksFailed(s) ==
  /\ ~Busy
  /\ sub[s].pc = "awaitBackend"
  /\ payments' = updatePaymentStatus(payments, PendingId(s), "failed",
                                     "Backend verification failed", NoHash)
  /\ submittingPayment' = FALSE
  /\ sub' = [sub EXCEPT ![s] = finish(@, "backendFailed")]
  /\ UNCHANGED <<walletVars, authVars, provider, walletState, refreshing, walletCheck,
                 intervals, paymentPollingIntervals, loads>>

\* lines 530-546: the error handler of createPaymentIntent
BackendError(s) ==
  /\ ~Busy
  /\ sub[s].pc = "awaitBackend"
  /\ IF \E i \in 1..Len(payments) :
          payments[i].id = PendingId(s) /\ payments[i].status = "confirmed"
       THEN UNCHANGED payments
       ELSE payments' = updatePaymentStatus(payments, PendingId(s), "pending",
                                            "Backend verification pending", NoHash)
  /\ submittingPayment' = FALSE
  /\ sub' = [sub EXCEPT ![s] = finish(@, "backendFailed")]
  /\ UNCHANGED <<walletVars, authVars, provider, walletState, refreshing, walletCheck,
                 intervals, paymentPollingIntervals, loads>>

(***************************************************************************)
(* The backend's answers to GET /payments.  The backend knows the payment  *)
(* of an invocation once its intent was posted, and may know an older one. *)
(***************************************************************************)
oldPayment ==
  [id |-> ServerId(0), status |-> "confirmed", transaction_hash |-> TxHashOf(0),
   createdAt |-> 0 - 100, description |-> NoText]

RECURSIVE ItemsFrom(_, _)
ItemsFrom(f, s) ==
  IF s > MaxSubs THEN <<>>
  ELSE (IF f[s] = "absent" THEN <<>> ELSE <<backendPayment(s, f[s])>>) \o ItemsFrom(f, s + 1)

RecentLists ==
  { ItemsFrom(f, 1) \o old :
      f \in { g \in [Subs -> {"absent", "pending", "confirmed", "failed"}] :
                \A s \in Subs : sub[s].intent = NoHash => g[s] = "absent" },
      old \in {<<>>, <<oldPayment>>} }

\* a full page (page_size=10) of payments older than every submission
FullPage ==
  [k \in 1..PaymentsShown |->
     [id |-> ServerId(0 - k), status |-> "confirmed", transaction_hash |-> TxHashOf(0 - k),
      createdAt |-> 0 - (100 + k), description |-> NoText]]

\* a variant of existsInBackend that compares the ids only
existsInBackendById(items, p) ==
  \E k \in 1..Len(items) : items[k].id = p.id

\* lines 721-724
existsInBackend(items, p) ==
  \E k \in 1..Len(items) :
     \/ items[k].id = p.id
     \/ (items[k].transaction_hash # NoHash /\ items[k].transaction_hash = p.transaction_hash)

RECURSIVE keepLocalPending(_, _, _)
\* lines 720-730: existing.forEach(... merged.unshift(existingPayment))
keepLocalPending(existing, items, merged) ==
  IF existing = <<>> THEN merged
  ELSE keepLocalPending(Tail(existing), items,
         IF ~existsInBackend(items, Head(existing)) /\ Head(existing).status = "pending"
           THEN <<Head(existing)>> \o merged ELSE merged)

\* lines 716-736
mergeRecent(existing, items) ==
  Slice10(SortNewestFirst(keepLocalPending(existing, items, items)))

\* lines 712-749: the answer to a loadRecentPayments request (a failed request
\* is an empty list, payment.service.ts line 23)
LoadResponse ==
  /\ ~Busy
  /\ loads > 0
  /\ loads' = loads - 1
  /\ \E items \in RecentLists \cup {FullPage} :
       payments' = IF Len(items) > 0 THEN mergeRecent(payments, items) ELSE payments
  /\ UNCHANGED <<walletVars, authVars, provider, walletState, refreshing, walletCheck,
                 submittingPayment, sub, intervals, paymentPollingIntervals>>

(***************************************************************************)
(* Payment status polling.                                                 *)
(***************************************************************************)
\* clearInterval(intervalId); this.paymentPollingIntervals.delete(paymentId)
stopPolling(i, ivs) == [ivs EXCEPT ![i].state = IF @ = "active" THEN "cleared" ELSE @]
forgetPolling(i) == {e \in paymentPollingIntervals : e[1] # intervals[i].paymentId}

\* lines 584-592, 627-631: the interval fires
PollTick(i) ==
  /\ ~Busy
  /\ intervals[i].state = "active"
  /\ intervals[i].pollCount < maxPolls + MaxExtraPolls
  /\ intervals[i].rcpts < MaxInFlight
  /\ intervals[i].lists < MaxInFlight
  /\ intervals' = [intervals EXCEPT ![i].pollCount = @ + 1,
                                    ![i].rcpts = IF provider /\ intervals[i].txHash # NoHash
                                                   THEN @ + 1 ELSE @,
                                    ![i].lists = @ + 1]
  /\ UNCHANGED <<walletVars, authVars, provider, walletState, refreshing, walletCheck, payments,
                 submittingPayment, sub, paymentPollingIntervals, loads>>

\* the entries a poll addresses: p.id === paymentId || p.transaction_hash === txHash
markPolled(list, i, status) ==
  [k \in 1..Len(list) |->
     IF list[k].id = intervals[i].paymentId \/ list[k].transaction_hash = intervals[i].txHash
       THEN [list[k] EXCEPT !.status = status]
       ELSE list[k]]

\* lines 593-624: eth_getTransactionReceipt of a poll has answered
PollReceipt(i) ==
  /\ ~Busy
  /\ intervals[i].rcpts > 0
  /\ \E r \in {"error", NoItem} \cup ReceiptStatuses :
       IF r \in {"error", NoItem}
         THEN /\ intervals' = [intervals EXCEPT ![i].rcpts = @ - 1]
              /\ UNCHANGED <<payments, paymentPollingIntervals>>
         ELSE /\ payments' = markPolled(payments, i,
                                        IF isSuccess(r) THEN "confirmed" ELSE "failed")
              /\ intervals' = stopPolling(i, [intervals EXCEPT ![i].rcpts = @ - 1])
              /\ paymentPollingIntervals' = forgetPolling(i)
  /\ UNCHANGED <<walletVars, authVars, provider, walletState, refreshing, walletCheck,
                 submittingPayment, sub, loads>>

\* items.find(p => p.id === paymentId || p.transaction_hash === txHash) reports
\* a status other than pending
reportsSettled(items, i) ==
  \E k \in 1..Len(items) :
     /\ items[k].id = intervals[i].paymentId \/ items[k].transaction_hash = intervals[i].txHash
     /\ \A j \in 1..(k - 1) :
          ~(items[j].id = intervals[i].paymentId \/ items[j].transaction_hash = intervals[i].txHash)
     /\ items[k].status # "pending"

\* lines 632-682: getRecentPayments of a poll has answered; the list returned
\* by the outer update callback is the one the signal keeps
PollList(i) ==
  /\ ~Busy
  /\ intervals[i].lists > 0
  /\ \E items \in RecentLists :
       LET answered == [intervals EXCEPT ![i].lists = @ - 1]
           stop == \/ (Len(items) > 0 /\ reportsSettled(items, i))
                   \/ intervals[i].pollCount >= maxPolls
       IN  /\ payments' = IF Len(items) > 0 THEN Slice10(SortNewestFirst(items))
                          ELSE payments
           /\ intervals' = IF stop THEN stopPolling(i, answered) ELSE answered
           /\ paymentPollingIntervals' = IF stop THEN forgetPolling(i)
                                         ELSE paymentPollingIntervals
  /\ UNCHANGED <<walletVars, authVars, provider, walletState, refreshing, walletCheck,
                 submittingPayment, sub, loads>>

(***************************************************************************)
(* Wallet events and logout.                                               *)
(***************************************************************************)
\* lines 151-163: the provider's accountsChanged event
AccountsChanged ==
  /\ ~Busy
  /\ provider
  /\ \E accounts \in {0, 1} :
       IF accounts = 0
         THEN walletState' = disconnected /\ UNCHANGED refreshing
         ELSE refreshing' = TRUE /\ UNCHANGED walletState
  /\ UNCHANGED <<walletVars, authVars, provider, walletCheck, payments, submittingPayment, sub,
                 intervals, paymentPollingIntervals, loads>>

\* lines 165-174: the provider's chainChanged event
ChainChanged ==
  /\ ~Busy
  /\ provider
  /\ walletState.address # NoAddress
  /\ refreshing' = TRUE
  /\ UNCHANGED <<walletVars, authVars, provider, walletState, walletCheck, payments,
                 submittingPayment, sub, intervals, paymentPollingIntervals, loads>>

\* lines 752-760: getBalance of a refreshWallet call has answered; other calls
\* may still await theirs
RefreshResponse ==
  /\ ~Busy
  /\ refreshing
  /\ refreshing' \in BOOLEAN
  /\ \E ok \in BOOLEAN :
       walletState' = IF ok THEN [connected |-> TRUE, address |-> Address]
                      ELSE walletState
  /\ UNCHANGED <<walletVars, authVars, provider, walletCheck, payments, submittingPayment, sub,
                 intervals, paymentPollingIntervals, loads>>

\* lines 121-126, 177-208: the constructor effect's timer runs checkUserWalletStatus
CheckUserWalletStatus ==
  /\ ~Busy
  /\ walletCheck
  /\ walletCheck' = FALSE
  /\ walletState' = IF isAuthenticated /\ localStorage.access_token = NoItem
                      THEN walletState ELSE disconnected
  /\ UNCHANGED <<walletVars, authVars, provider, refreshing, payments, submittingPayment, sub,
                 intervals, paymentPollingIntervals, loads>>

logoutRequest == [kind |-> "logout", email |-> NoItem]

\* part_001 lines 99-112: disconnectWallet up to its request
requestDisconnect == disconnecting' = (disconnecting \/ provider)

\* lines 291-303: AppComponent.logout up to the subscription
AppLogout ==
  /\ ~Busy
  /\ logoutRequest \notin authReqs
  /\ intervals' = [i \in Subs |->
       IF \E e \in paymentPollingIntervals : e[2] = i
         THEN [intervals[i] EXCEPT !.state = "cleared"] ELSE intervals[i]]
  /\ paymentPollingIntervals' = {}
  /\ requestDisconnect
  /\ authReqs' = authReqs \cup {logoutRequest}
  /\ UNCHANGED <<walletAddressItem, conn, connectingWallet, appConn, localStorage, authState,
                 sent, authOutcome, provider, walletState,
                 refreshing, walletCheck, payments, submittingPayment, sub, loads>>

\* part_002 lines 77-90 with the subscriber of part_004 lines 303-321 (its next
\* and its error handler are the same statements)
AppLogoutResponse ==
  /\ ~Busy
  /\ logoutRequest \in authReqs
  /\ authReqs' = authReqs \ {logoutRequest}
  /\ clearAuthState
  /\ walletState' = disconnected
  /\ UNCHANGED <<walletVars, sent, authOutcome, provider, refreshing, walletCheck, payments, submittingPayment,
                 sub, intervals, paymentPollingIntervals, loads>>

(***************************************************************************)
(* AuthService requests (part_002) and authInterceptor.                    *)
(***************************************************************************)
\* lines 54-56: login(payload) is subscribed to, the POST /auth/login is sent
Login ==
  /\ \E email \in Emails : authReqs' = authReqs \cup {[kind |-> "login", email |-> email]}
  /\ UNCHANGED <<walletVars, localStorage, authState, sent, authOutcome, appVars>>

\* lines 58-69: the tap of login, then the subscriber's next; when
\* isAuthenticated turns true the constructor effect of AppComponent (part_004
\* lines 121-126) sets its timer
LoginSuccess ==
  /\ \E req \in authReqs, access_token \in Tokens :
       /\ req.kind = "login"
       /\ authReqs' = authReqs \ {req}
       /\ localStorage' = [access_token |-> access_token, user_email |-> req.email]
       /\ authState' = [isAuthenticated |-> TRUE, accessToken |-> access_token,
                        userEmail |-> req.email]
       /\ authOutcome' = outcome("login", "ok", "next", access_token)
  /\ walletCheck' = (walletCheck \/ ~isAuthenticated)
  /\ UNCHANGED <<walletVars, sent, provider, walletState, refreshing, payments,
                 submittingPayment, sub, intervals, paymentPollingIntervals, loads>>

\* a variant of LoginFailure that clears the session
LoginFailureClears ==
  /\ \E req \in authReqs :
       /\ req.kind = "login"
       /\ authReqs' = authReqs \ {req}
       /\ authOutcome' = outcome("login", "failed", "error", NoItem)
  /\ clearAuthState
  /\ UNCHANGED <<walletVars, sent, appVars>>

\* lines 70-73: the catchError of login rethrows, the subscriber's error
LoginFailure ==
  /\ \E req \in authReqs :
       /\ req.kind = "login"
       /\ authReqs' = authReqs \ {req}
       /\ authOutcome' = outcome("login", "failed", "error", NoItem)
  /\ UNCHANGED <<walletVars, localStorage, authState, sent, appVars>>

\* lines 77-79: logout() is subscribed to, the POST /auth/logout is sent
Logout ==
  /\ authReqs' = authReqs \cup {logoutRequest}
  /\ UNCHANGED <<walletVars, localStorage, authState, sent, authOutcome, appVars>>

\* lines 81-83: the tap of logout, then the subscriber's next
LogoutSuccess ==
  /\ logoutRequest \in authReqs
  /\ authReqs' = authReqs \ {logoutRequest}
  /\ clearAuthState
  /\ authOutcome' = outcome("logout", "ok", "next", NoItem)
  /\ UNCHANGED <<walletVars, sent, appVars>>

\* a variant of LogoutFailure that keeps the session
LogoutFailureKeeps ==
  /\ logoutRequest \in authReqs
  /\ authReqs' = authReqs \ {logoutRequest}
  /\ authOutcome' = outcome("logout", "failed", "error", NoItem)
  /\ UNCHANGED <<walletVars, localStorage, authState, sent, appVars>>

\* lines 84-88: the catchError of logout clears and rethrows
LogoutFailure ==
  /\ logoutRequest \in authReqs
  /\ authReqs' = authReqs \ {logoutRequest}
  /\ clearAuthState
  /\ authOutcome' = outcome("logout", "failed", "error", NoItem)
  /\ UNCHANGED <<walletVars, sent, appVars>>

refreshRequest == [kind |-> "refresh", email |-> NoItem]

\* lines 92-94: refreshToken() is subscribed to
RefreshToken ==
  /\ authReqs' = authReqs \cup {refreshRequest}
  /\ UNCHANGED <<walletVars, localStorage, authState, sent, authOutcome, appVars>>

\* lines 96-102: the tap of refreshToken, or its error (no catchError)
RefreshTokenResponse ==
  /\ refreshRequest \in authReqs
  /\ authReqs' = authReqs \ {refreshRequest}
  /\ \/ \E access_token \in Tokens :
          /\ localStorage' = [localStorage EXCEPT !.access_token = access_token]
          /\ authState' = [authState EXCEPT !.accessToken = access_token]
          /\ authOutcome' = outcome("refresh", "ok", "next", access_token)
     \/ /\ authOutcome' = outcome("refresh", "failed", "error", NoItem)
        /\ UNCHANGED <<localStorage, authState>>
  /\ UNCHANGED <<walletVars, sent, appVars>>

\* String.prototype.startsWith
StartsWith(s, p) == Len(s) >= Len(p) /\ SubSeq(s, 1, Len(p)) = p
\* String.prototype.endsWith
EndsWith(s, p) == Len(s) >= Len(p) /\ SubSeq(s, Len(s) - Len(p) + 1, Len(s)) = p
\* String.prototype.includes
Includes(s, p) == \E i \in 1..(Len(s) - Len(p) + 1) : SubSeq(s, i, i + Len(p) - 1) = p

\* the first index from i on at which s has one of the characters, else Len(s) + 1
RECURSIVE IndexOfAny(_, _, _)
IndexOfAny(s, chars, i) ==
  IF i > Len(s) THEN Len(s) + 1
  ELSE IF s[i] \in chars THEN i
  ELSE IndexOfAny(s, chars, i + 1)

sHttp == <<"h", "t", "t", "p">>
sAuth == <<"/", "a", "u", "t", "h", "/">>
sHealth == <<"/", "h", "e", "a", "l", "t", "h">>
sRoot == <<"/">>
sPayments == <<"/", "p", "a", "y", "m", "e", "n", "t", "s">>
sOrigin == sHttp \o <<":", "/", "/", "h">>

\* new URL(url).pathname of an absolute http URL: what follows the authority up
\* to the query or the fragment, '/' when that is empty
pathname(url) ==
  LET colon == IndexOfAny(url, {":"}, 1)
      start == IndexOfAny(url, {"/", "?", "#"}, colon + 3)
      stop  == IndexOfAny(url, {"?", "#"}, start)
  IN  IF start = stop THEN sRoot ELSE SubSeq(url, start, stop - 1)

\* req.url of the requests followed: the backend's routes under a relative
\* apiUrl (payment.service.ts lines 15 and 20, part_002 line 56), the public
\* routes, routes with a query string, and the same under an absolute origin
RelativeUrls ==
  { sAuth \o <<"l", "o", "g", "i", "n">>,
    sPayments,
    sPayments \o <<"?", "p", "a", "g", "e", "=", "1", "&", "p", "a", "g", "e", "_",
                   "s", "i", "z", "e", "=", "1", "0">>,
    sPayments \o <<"?", "n", "e", "x", "t", "=">> \o sHealth,
    sPayments \o <<"?", "n", "e", "x", "t", "=">> \o sAuth,
    sHealth,
    sHealth \o <<"?", "v", "=", "1">>,
    <<"/", "a", "p", "i">> \o sHealth,
    sRoot }

\* payment.service.ts line 28: the URL of getExchangeRates, on another host
exchangeRatesUrl ==
  <<"h", "t", "t", "p", "s", ":", "/", "/", "a", "p", "i", ".", "c", "o",
    "i", "n", "g", "e", "c", "k", "o", ".", "c", "o", "m", "/", "a", "p",
    "i", "/", "v", "3", "/", "s", "i", "m", "p", "l", "e", "/", "p", "r",
    "i", "c", "e", "?", "i", "d", "s", "=", "e", "t", "h", "e", "r", "e",
    "u", "m", "&", "v", "s", "_", "c", "u", "r", "r", "e", "n", "c", "i",
    "e", "s", "=", "u", "s", "d", ",", "i", "n", "r", ",", "e", "u", "r",
    ",", "g", "b", "p">>

Urls == RelativeUrls \cup {sOrigin \o u : u \in RelativeUrls \cup {<<>>}}
             \cup {exchangeRatesUrl}

\* `Bearer ${token}`
Bearer(token) == <<"Bearer", token>>

\* auth.interceptor.ts lines 5-28; sent is the request handed to next()
authInterceptor(url) ==
  LET token == localStorage.access_token
      path == IF StartsWith(url, sHttp) THEN pathname(url) ELSE url
      isAuthRoute == Includes(path, sAuth)
      isPublicRoute == path = sHealth \/ path = sRoot \/ EndsWith(path, sHealth)
  IN  sent' = [url |-> url, token |-> token,
               authorization |-> IF token # NoItem /\ ~isAuthRoute /\ ~isPublicRoute
                                   THEN Bearer(token) ELSE NoItem]

\* an HttpClient request passes the interceptor
Intercept ==
  /\ \E url \in Urls : authInterceptor(url)
  /\ UNCHANGED <<walletVars, localStorage, authState, authReqs, authOutcome, appVars>>


(***************************************************************************)
(* WalletService.connectWallet and disconnectWallet.                       *)
(***************************************************************************)
\* a variant of isUserRejection for which every error of the request counts
isAnyRejection(code) == code # Granted

\* line 73: e.code === 4001
isUserRejection(code) == code = UserRejected

\* lines 203-207
persistWalletAddress(address) == walletAddressItem' = address

\* lines 59-70: ensureProvider and the first request
ConnectWallet(forceAccountSelection) ==
  /\ conn.pc \in {"idle"} \cup ConnEnded
  /\ conn' = IF ~provider
             THEN [newConn EXCEPT !.pc = "thrown", !.force = forceAccountSelection]
             ELSE IF forceAccountSelection
             THEN [newConn EXCEPT !.pc = "awaitPermissions", !.force = TRUE,
                                  !.asked = {"wallet_requestPermissions"}]
             ELSE [newConn EXCEPT !.pc = "awaitAccounts",
                                  !.asked = {"eth_requestAccounts"}]
  /\ UNCHANGED <<walletAddressItem, disconnecting, connectingWallet, appConn, authVars, appVars>>

\* lines 66-80: wallet_requestPermissions resolves or rejects
PermissionsResponse ==
  /\ conn.pc = "awaitPermissions"
  /\ \E answer \in PermissionAnswers :
       conn' = IF answer # Granted /\ isUserRejection(answer)
               THEN [conn EXCEPT !.pc = "thrown", !.permission = answer]
               ELSE [conn EXCEPT !.pc = "awaitAccounts", !.permission = answer,
                                 !.asked = @ \cup {"eth_requestAccounts"}]
  /\ UNCHANGED <<walletAddressItem, disconnecting, connectingWallet, appConn, authVars, appVars>>

\* lines 80-86: eth_requestAccounts resolves or rejects
AccountsResponse ==
  /\ conn.pc = "awaitAccounts"
  /\ \E accounts \in AccountLists \cup {NullAccounts, ProviderError} :
       conn' = IF accounts \in {ProviderError, NullAccounts} \/ Len(accounts) = 0
               THEN [conn EXCEPT !.pc = "thrown", !.accounts = accounts]
               ELSE [conn EXCEPT !.pc = "awaitChainId", !.accounts = accounts,
                                 !.asked = @ \cup {"eth_chainId"}]
  /\ UNCHANGED <<walletAddressItem, disconnecting, connectingWallet, appConn, authVars, appVars>>

\* lines 86-96: eth_chainId resolves or rejects
ChainIdResponse ==
  /\ conn.pc = "awaitChainId"
  /\ \E chainId \in ChainIds \cup {ProviderError} :
       IF chainId = ProviderError
       THEN /\ conn' = [conn EXCEPT !.pc = "thrown", !.chainId = chainId]
            /\ UNCHANGED walletAddressItem
       ELSE /\ persistWalletAddress(conn.accounts[1])
            /\ conn' = [conn EXCEPT !.pc = "returned", !.chainId = chainId,
                          !.result = [address |-> conn.accounts[1], chainId |-> chainId,
                                      networkName |-> networkNameOf(chainId)]]
  /\ UNCHANGED <<disconnecting, connectingWallet, appConn, authVars, appVars>>

\* lines 99-112
DisconnectWallet ==
  /\ requestDisconnect
  /\ UNCHANGED <<walletAddressItem, conn, connectingWallet, appConn, authVars, appVars>>

\* lines 113-118: the request settled either way, clearPersistedWalletAddress
DisconnectResponse ==
  /\ disconnecting
  /\ disconnecting' \in BOOLEAN
  /\ walletAddressItem' = NoItem
  /\ UNCHANGED <<conn, connectingWallet, appConn, authVars, appVars>>

(***************************************************************************)
(* AppComponent.connectWallet (part_004 lines 210-289).                    *)
(***************************************************************************)
\* part_001 lines 55-57
isMetaMaskInstalled == provider

\* lines 282-287: the catch and finally blocks of the outer try
connectFailed == connectingWallet' = FALSE /\ appConn' = [appConn EXCEPT !.pc = "failed"]

\* lines 210-227: the guards, then walletService.connectWallet(true) up to its
\* first request
AppConnectWallet ==
  /\ appConn.pc \in {"idle"} \cup AppConnEnded
  /\ conn.pc \in {"idle"} \cup ConnEnded
  /\ IF ~isAuthenticated
       THEN /\ appConn' = [newAppConn EXCEPT !.pc = "toLogin"]
            /\ UNCHANGED <<connectingWallet, conn>>
     ELSE IF ~isMetaMaskInstalled
       THEN /\ appConn' = [newAppConn EXCEPT !.pc = "noMetaMask"]
            /\ UNCHANGED <<connectingWallet, conn>>
     ELSE /\ connectingWallet' = TRUE
          /\ appConn' = [newAppConn EXCEPT !.pc = "awaitConnection"]
          /\ conn' = [newConn EXCEPT !.pc = "awaitPermissions", !.force = TRUE,
                                     !.asked = {"wallet_requestPermissions"}]
  /\ UNCHANGED <<walletAddressItem, disconnecting, authVars, appVars>>

\* lines 227-239: walletService.connectWallet has returned or thrown
ConnectionSettled ==
  /\ appConn.pc = "awaitConnection"
  /\ conn.pc \in ConnEnded
  /\ IF conn.pc = "thrown"
       THEN connectFailed
     ELSE IF lengthOf(conn.result.address) # AddressChars
       THEN /\ connectingWallet' = FALSE
            /\ appConn' = [appConn EXCEPT !.pc = "invalidAddress"]
     ELSE /\ appConn' = [appConn EXCEPT !.pc = "awaitWallets",
                                         !.address = conn.result.address]
          /\ UNCHANGED connectingWallet
  /\ UNCHANGED <<walletAddressItem, conn, disconnecting, authVars, appVars>>

\* lines 239-254, 268-271, part_001 lines 121-128: getUserWallets has answered
\* (an error counts as no wallets); personal_sign or eth_getBalance is requested
WalletsResponse ==
  /\ appConn.pc = "awaitWallets"
  /\ \E ok \in BOOLEAN, answer \in WalletLists :
       LET wallets == IF ok THEN answer ELSE {}
           isLinkedToThisUser == \E w \in wallets : lowerOf(w) = lowerOf(appConn.address)
       IN  appConn' = IF isLinkedToThisUser
                      THEN [appConn EXCEPT !.pc = "awaitBalance", !.linked = TRUE]
                      ELSE [appConn EXCEPT !.pc = "awaitSignature"]
  /\ UNCHANGED <<walletAddressItem, conn, disconnecting, connectingWallet, authVars, appVars>>

\* lines 256-266: the inner catch block, whatever the error
linkFailed == connectingWallet' = FALSE /\ appConn' = [appConn EXCEPT !.pc = "linkFailed"]

\* part_001 lines 125-136: personal_sign resolves (the signature is posted to
\* /wallet/connect) or rejects
SignatureResponse ==
  /\ appConn.pc = "awaitSignature"
  /\ \E signed \in BOOLEAN :
       IF signed
         THEN appConn' = [appConn EXCEPT !.pc = "awaitLink"] /\ UNCHANGED connectingWallet
         ELSE linkFailed
  /\ UNCHANGED <<walletAddressItem, conn, disconnecting, authVars, appVars>>

\* part_001 lines 131-144, part_004 lines 254-271: POST /wallet/connect has
\* answered; an error or an empty body is thrown, any body is returned
LinkResponse ==
  /\ appConn.pc = "awaitLink"
  /\ \E answer \in LinkAnswers :
       IF answer \in LinkErrors \cup {"null"}
         THEN linkFailed
         ELSE /\ appConn' = [appConn EXCEPT !.pc = "awaitBalance", !.link = answer]
              /\ UNCHANGED connectingWallet
  /\ UNCHANGED <<walletAddressItem, conn, disconnecting, authVars, appVars>>

\* lines 271-287: eth_getBalance resolves or rejects
ConnectBalanceResponse ==
  /\ appConn.pc = "awaitBalance"
  /\ \E ok \in BOOLEAN :
       IF ok
         THEN /\ walletState' = [connected |-> TRUE, address |-> appConn.address]
              /\ connectingWallet' = FALSE
              /\ appConn' = [appConn EXCEPT !.pc = "connected"]
         ELSE connectFailed /\ UNCHANGED walletState
  /\ UNCHANGED <<walletAddressItem, conn, disconnecting, authVars, provider, refreshing,
                 walletCheck, payments, submittingPayment, sub, intervals,
                 paymentPollingIntervals, loads>>

(***************************************************************************)
(* Spec: the invocations of submitPayment follow one another (the next     *)
(* starts when the previous one has finished), with the wallet events and  *)
(* logouts in between.  The timers of startPaymentStatusPolling are        *)
(* followed in PollSpec, the answers to loadRecentPayments in LoadSpec.    *)
(***************************************************************************)
Next ==
  \/ \E s \in Subs : InTurn(s) /\ SubmitPayment(s)
  \/ \E s \in Subs : SubmitPrepare(s)
  \/ \E s \in Subs : BalanceResponse(s)
  \/ \E s \in Subs : GasPriceResponse(s)
  \/ \E s \in Subs : SendTxResponse(s)
  \/ \E s \in Subs : ReceiptResponse(s)
  \/ \E s \in Subs : SleepDone(s)
  \/ \E s \in Subs : AfterLoop(s)
  \/ \E s \in Subs : BackendSuccess(s)
  \/ \E s \in Subs : BackendError(s)
  \/ AccountsChanged
  \/ RefreshResponse
  \/ ChainChanged
  \/ AppLogout
  \/ AppLogoutResponse

Spec == Init /\ [][Next]_vars

(***************************************************************************)
(* LoadSpec: Spec with the constructor's timer and the answers to          *)
(* loadRecentPayments.                                                     *)
(***************************************************************************)
LoadNext ==
  \/ Next
  \/ CheckUserWalletStatus
  \/ LoadResponse

LoadSpec == Init /\ [][LoadNext]_vars

(***************************************************************************)
(* PollSpec: one invocation of submitPayment and the polling it starts.    *)
(***************************************************************************)
PollNext ==
  \/ SubmitPayment(1)
  \/ SubmitPrepare(1)
  \/ BalanceResponse(1)
  \/ GasPriceResponse(1)
  \/ SendTxResponse(1)
  \/ ReceiptResponse(1)
  \/ SleepDone(1)
  \/ AfterLoop(1)
  \/ BackendSuccess(1)
  \/ BackendError(1)
  \/ PollTick(1)
  \/ PollReceipt(1)
  \/ PollList(1)
  \/ AccountsChanged
  \/ RefreshResponse
  \/ AppLogout
  \/ AppLogoutResponse

PollSpec == Init /\ [][PollNext]_vars

(***************************************************************************)
(* AuthSpec: the requests of AuthService and the interceptor.              *)
(***************************************************************************)
AuthNext ==
  \/ Login
  \/ LoginSuccess
  \/ LoginFailure
  \/ Logout
  \/ LogoutSuccess
  \/ LogoutFailure
  \/ RefreshToken
  \/ RefreshTokenResponse

AuthSpec == Init /\ [][AuthNext]_vars

(***************************************************************************)
(* InterceptSpec: requests pass the interceptor while logins and logouts   *)
(* change the stored token.                                                *)
(***************************************************************************)
InterceptNext ==
  \/ Intercept
  \/ Login
  \/ LoginSuccess
  \/ LoginFailure
  \/ Logout
  \/ LogoutSuccess
  \/ LogoutFailure

InterceptSpec == Init /\ [][InterceptNext]_vars

(***************************************************************************)
(* WalletSpec: the methods of WalletService, called one connectWallet at a *)
(* time, with the provider's answers.                                      *)
(***************************************************************************)
WalletNext ==
  \/ \E forceAccountSelection \in BOOLEAN : ConnectWallet(forceAccountSelection)
  \/ PermissionsResponse
  \/ AccountsResponse
  \/ ChainIdResponse
  \/ DisconnectWallet
  \/ DisconnectResponse

WalletSpec == Init /\ [][WalletNext]_vars

(***************************************************************************)
(* DemoSpec: a visitor logs in, the wallet connects, a payment is          *)
(* submitted and the answers to loadRecentPayments arrive.                 *)
(***************************************************************************)
DemoNext ==
  \/ ~isAuthenticated /\ authReqs = {} /\ Login
  \/ LoginSuccess
  \/ CheckUserWalletStatus
  \/ AccountsChanged
  \/ RefreshResponse
  \/ \E s \in Subs : InTurn(s) /\ SubmitPayment(s)
  \/ \E s \in Subs : SubmitPrepare(s)
  \/ \E s \in Subs : BalanceResponse(s)
  \/ \E s \in Subs : GasPriceResponse(s)
  \/ \E s \in Subs : SendTxResponse(s)
  \/ \E s \in Subs : ReceiptResponse(s)
  \/ \E s \in Subs : SleepDone(s)
  \/ \E s \in Subs : AfterLoop(s)
  \/ \E s \in Subs : BackendSuccess(s)
  \/ \E s \in Subs : BackendError(s)
  \/ LoadResponse

DemoSpec == Init /\ [][DemoNext]_vars

(***************************************************************************)
(* ConnectSpec: AppComponent.connectWallet, called one at a time, with the *)
(* answers of the provider and the backend, and logouts in between.        *)
(***************************************************************************)
ConnectNext ==
  \/ AppConnectWallet
  \/ PermissionsResponse
  \/ AccountsResponse
  \/ ChainIdResponse
  \/ ConnectionSettled
  \/ WalletsResponse
  \/ SignatureResponse
  \/ LinkResponse
  \/ ConnectBalanceResponse
  \/ AppLogout
  \/ AppLogoutResponse

ConnectSpec == Init /\ [][ConnectNext]_vars

(***************************************************************************)
(* FairSpec: the submissions and the wallet's account events, under the    *)
(* scheduling the receipt wait loop relies on: the provider answers every  *)
(* eth_getTransactionReceipt request (with a receipt, with null or with an *)
(* error), the 5 second timer fires, and the code after the loop runs.     *)
(***************************************************************************)
FairNext ==
  \/ \E s \in Subs : InTurn(s) /\ SubmitPayment(s)
  \/ \E s \in Subs : SubmitPrepare(s)
  \/ \E s \in Subs : BalanceResponse(s)
  \/ \E s \in Subs : GasPriceResponse(s)
  \/ \E s \in Subs : SendTxResponse(s)
  \/ \E s \in Subs : ReceiptResponse(s)
  \/ \E s \in Subs : SleepDone(s)
  \/ \E s \in Subs : AfterLoop(s)
  \/ \E s \in Subs : BackendSuccess(s)
  \/ \E s \in Subs : BackendError(s)
  \/ AccountsChanged
  \/ RefreshResponse

FairSpec ==
  /\ Init
  /\ [][FairNext]_vars
  /\ \A s \in Subs : /\ WF_vars(ReceiptResponse(s))
                     /\ WF_vars(SleepDone(s))
                     /\ WF_vars(AfterLoop(s))

(***************************************************************************)
(* LiveSpec: FairSpec's steps under the scheduling "every provider and     *)
(* backend request eventually responds": each continuation of a            *)
(* submitPayment invocation that is enabled eventually runs.               *)
(***************************************************************************)
SubmitStep(s) ==
  \/ SubmitPrepare(s)
  \/ BalanceResponse(s)
  \/ GasPriceResponse(s)
  \/ SendTxResponse(s)
  \/ ReceiptResponse(s)
  \/ SleepDone(s)
  \/ AfterLoop(s)
  \/ BackendSuccess(s)
  \/ BackendError(s)

LiveSpec ==
  /\ Init
  /\ [][FairNext]_vars
  /\ \A s \in Subs : WF_vars(SubmitStep(s))

(***************************************************************************)
(* OverlapSpec: submitPayment is invoked again while earlier invocations   *)
(* still wait for their responses.  The 5 second timers of the receipt     *)
(* loops are not followed here: an invocation leaves its loop with the     *)
(* receipt of its first request.                                           *)
(***************************************************************************)
OverlapNext ==
  \/ \E s \in Subs : SubmitPayment(s)
  \/ \E s \in Subs : SubmitPrepare(s)
  \/ \E s \in Subs : BalanceResponse(s)
  \/ \E s \in Subs : GasPriceResponse(s)
  \/ \E s \in Subs : SendTxResponse(s)
  \/ \E s \in Subs : ReceiptResponse(s)
  \/ \E s \in Subs : AfterLoop(s)
  \/ \E s \in Subs : BackendSuccess(s)
  \/ \E s \in Subs : BackendError(s)
  \/ AccountsChanged
  \/ RefreshResponse

OverlapSpec == Init /\ [][OverlapNext]_vars

(***************************************************************************)
(* RepollSpec: while the payment of the first invocation is polled, a      *)
(* second invocation posts an intent that the backend answers with the     *)
(* payment it already holds, so that startPaymentStatusPolling is called   *)
(* again for the same payment id.  The wallet's events are followed up to  *)
(* the first submission.                                                   *)
(***************************************************************************)
RepollNext ==
  \/ sub[1].pc = "init" /\ AccountsChanged
  \/ sub[1].pc = "init" /\ RefreshResponse
  \/ SubmitPayment(1)
  \/ \E s \in Subs \ {1} : intervals[1].state = "active" /\ SubmitPayment(s)
  \/ \E s \in Subs : SubmitPrepare(s)
  \/ \E s \in Subs : BalanceResponse(s)
  \/ \E s \in Subs : GasPriceResponse(s)
  \/ \E s \in Subs : SendTxResponse(s)
  \/ \E s \in Subs : ReceiptResponse(s)
  \/ \E s \in Subs : SleepDone(s)
  \/ \E s \in Subs : AfterLoop(s)
  \/ BackendSuccess(1)
  \/ \E s \in Subs : BackendSuccessKnown(s)
  \/ \E i \in Subs : intervals[i].pollCount < MaxRepollTicks /\ PollTick(i)
  \/ \E i \in Subs : PollReceipt(i)
  \/ \E i \in Subs : PollList(i)

RepollSpec == Init /\ [][RepollNext]_vars

(***************************************************************************)
(* Properties.                                                             *)
(***************************************************************************)
\* the positions of the entries of a list with the given id
EntriesOf(list, id) == {i \in 1..Len(list) : list[i].id = id}

\* no invocation other than s is between its validation and its end
OthersIdle(s) == \A r \in Subs \ {s} : sub[r].pc \in FinishedPcs \cup {"init"}

\* the value of a 0x-prefixed hexadecimal quantity
WeiOf(hex) == ParseBigInt(hex).val

\* the balance eth_getBalance returned to invocation s is less than its amount
\* in wei plus 21000 times the gas price eth_gasPrice returned
Insufficient(s) ==
  /\ sub[s].balance # <<>>
  /\ sub[s].gasPrice # <<>>
  /\ sub[s].amountHex # <<>>
  /\ BigLess(WeiOf(sub[s].balance),
             BigAdd(WeiOf(sub[s].amountHex),
                    BigMulSmall(WeiOf(sub[s].gasPrice), gasEstimate)))

\* C1: whenever the balance returned by eth_getBalance is less than the amount
\* in wei plus 21000 times the gas price returned by eth_gasPrice, the
\* submission does not request eth_sendTransaction; a submission that ended
\* on the balance check has its payment marked failed ('Insufficient
\* balance'), submittingPayment false and no eth_sendTransaction request.
C1_BalanceCheckedBeforeSending ==
  \A s \in Subs :
    /\ Insufficient(s) => "eth_sendTransaction" \notin sub[s].reqs
    /\ sub[s].pc = "insufficient" =>
         /\ "eth_sendTransaction" \notin sub[s].reqs
         /\ \A i \in EntriesOf(payments, PendingId(s)) :
              /\ payments[i].status = "failed"
              /\ payments[i].description = "Insufficient balance"
         /\ OthersIdle(s) => ~submittingPayment

\* C2: createPaymentIntent is posted only after eth_sendTransaction was
\* requested and returned a hash, and with that hash; a submission whose
\* eth_sendTransaction failed (rejected or any other error) has its payment
\* marked failed, submittingPayment false, and no createPaymentIntent request.
C2_IntentOnlyAfterHash ==
  \A s \in Subs :
    /\ ("createPaymentIntent" \in sub[s].reqs \/ sub[s].intent # NoHash) =>
         /\ "eth_sendTransaction" \in sub[s].reqs
         /\ sub[s].intent = TxHashOf(s)
         /\ sub[s].pc \in {"awaitBackend", "synced", "backendFailed"}
    /\ sub[s].pc \in {"txRejected", "txFailed"} =>
         /\ "createPaymentIntent" \notin sub[s].reqs
         /\ sub[s].intent = NoHash
         /\ \A i \in EntriesOf(payments, PendingId(s)) : payments[i].status = "failed"
         /\ OthersIdle(s) => ~submittingPayment

C2_Witness ==
  \E s \in Subs :
    /\ sub[s].pc = "awaitBackend"
    /\ sub[s].intent = TxHashOf(s)
    /\ \E i \in EntriesOf(payments, PendingId(s)) :
         payments[i].transaction_hash = TxHashOf(s)

\* the invocation is in the receipt wait loop
InLoop(s) == sub[s].pc \in {"awaitReceipt", "sleeping"}

C4_ReceiptDecides ==
  [][\A s \in Subs :
       /\ (sub[s].pc = "afterLoop" /\ sub[s].receipt # NoItem /\ sub'[s].pc # "afterLoop") =>
            IF sub[s].receipt \in {"0x1", "0x01", "num1"}
              THEN /\ sub'[s].pc = "awaitBackend"
                   /\ \A i \in EntriesOf(payments, PendingId(s)) :
                        /\ payments'[i].id = PendingId(s)
                        /\ payments'[i].status = "confirmed"
                        /\ payments'[i].transaction_hash = TxHashOf(s)
              ELSE /\ sub'[s].pc = "reverted"
                   /\ ~submittingPayment'
                   /\ \A i \in EntriesOf(payments, PendingId(s)) :
                        /\ payments'[i].id = PendingId(s)
                        /\ payments'[i].status = "failed"
       /\ sub'[s].pc = "reverted" =>
            /\ "createPaymentIntent" \notin sub'[s].reqs
            /\ sub'[s].intent = NoHash]_vars

C4_Witness ==
  \E s \in Subs :
    /\ sub[s].pc = "awaitBackend"
    /\ sub[s].receipt = "0x01"
    /\ \E i \in EntriesOf(payments, PendingId(s)) :
         /\ payments[i].status = "confirmed"
         /\ payments[i].transaction_hash = TxHashOf(s)

\* C5: a call of submitPayment puts a pending payment at the head of payments
\* (the list's 10 newest are kept) and sets submittingPayment to true exactly
\* when the form is valid and walletState.connected is true, having made no
\* request yet; otherwise payments and submittingPayment are unchanged and
\* the call ends without ever making a request.
C5_OptimisticInsert ==
  [][\A s \in Subs :
       /\ (sub[s].pc = "init" /\ sub'[s].pc # "init") =>
            IF AmountValid(sub'[s].amt) /\ sub'[s].recipientOk /\ walletState.connected
              THEN /\ sub'[s].pc = "inserted"
                   /\ submittingPayment'
                   /\ Len(payments') = Min(Len(payments) + 1, PaymentsShown)
                   /\ payments'[1].id = PendingId(s)
                   /\ payments'[1].status = "pending"
                   /\ \A i \in 2..Len(payments') : payments'[i] = payments[i - 1]
                   /\ sub'[s].reqs = {}
              ELSE /\ sub'[s].pc \in {"invalidForm", "notConnected"}
                   /\ payments' = payments
                   /\ submittingPayment' = submittingPayment
       /\ sub'[s].pc \in {"invalidForm", "notConnected"} =>
            /\ sub'[s].reqs = {}
            /\ sub'[s].intent = NoHash]_vars

C5_Witness ==
  \E s \in Subs :
    /\ sub[s].pc = "inserted"
    /\ submittingPayment
    /\ Len(payments) > 1
    /\ payments[1].id = PendingId(s)
    /\ payments[1].status = "pending"
    /\ sub[s].reqs = {}

\* the next handler of createPaymentIntent turns every entry of submission s
\* into the backend's payment, confirmed if the receipt confirmed the
\* transaction, else with the backend's status (pending when it gives none),
\* and with the hash eth_sendTransaction returned
ReplacedByBackend(s) ==
  (sub[s].pc = "awaitBackend" /\ sub'[s].pc = "synced") =>
    \A i \in EntriesOf(payments, PendingId(s)) :
      /\ i <= Len(payments')
      /\ payments'[i].id = ServerId(s)
      /\ payments'[i].transaction_hash = sub[s].txHash
      /\ sub[s].txHash = TxHashOf(s)
      /\ payments'[i].status =
           IF sub[s].transactionConfirmed THEN "confirmed"
           ELSE IF sub'[s].backendStatus = "none" THEN "pending"
           ELSE sub'[s].backendStatus

\* C6: when createPaymentIntent succeeds while the user is still
\* authenticated, the local entry of the submission is replaced by the
\* backend's payment with status confirmed if the receipt confirmed the
\* transaction, else with the backend's status (pending when none), carrying
\* the hash returned by eth_sendTransaction.
C6_BackendReplacesEntry ==
  [][\A s \in Subs : isAuthenticated => ReplacedByBackend(s)]_vars

C6_Witness ==
  \E s \in Subs :
    /\ sub[s].pc = "synced"
    /\ sub[s].backendStatus = "pending"
    /\ isAuthenticated
    /\ \E i \in EntriesOf(payments, ServerId(s)) :
         /\ payments[i].status = "confirmed"
         /\ payments[i].transaction_hash = TxHashOf(s)

\* C6 as stated, also for a user who has logged out since the intent was posted
C6_AsStated ==
  [][\A s \in Subs : ReplacedByBackend(s)]_vars

\* C7: no payment is polled more than 30 times, and an interval that has
\* reached 30 polls with no request outstanding has been cleared.
C7_AtMost30Polls ==
  \A i \in Subs :
    /\ intervals[i].pollCount <= maxPolls
    /\ (intervals[i].pollCount >= maxPolls /\ intervals[i].lists = 0) =>
         intervals[i].state # "active"

\* a login request is answered in this step
LoginAnswered(req) ==
  /\ req \in authReqs
  /\ req.kind = "login"
  /\ authReqs' = authReqs \ {req}

\* C8: a login request that succeeds stores the returned token and the
\* submitted email in localStorage and sets authState to {true, that token,
\* that email}; one that fails leaves localStorage and authState unchanged
\* and delivers the error to the subscriber; sending the request changes
\* neither.
C8_LoginChangesSessionOnSuccess ==
  [][/\ \A req \in authReqs :
          LoginAnswered(req) =>
            /\ authOutcome'.kind = "login"
            /\ authOutcome'.http = "ok" =>
                 /\ authOutcome'.result = "next"
                 /\ authOutcome'.access_token \in Tokens
                 /\ localStorage' = [access_token |-> authOutcome'.access_token,
                                     user_email |-> req.email]
                 /\ authState' = [isAuthenticated |-> TRUE,
                                  accessToken |-> authOutcome'.access_token,
                                  userEmail |-> req.email]
            /\ authOutcome'.http # "ok" =>
                 /\ authOutcome'.http = "failed"
                 /\ authOutcome'.result = "error"
                 /\ localStorage' = localStorage
                 /\ authState' = authState
     /\ (authReqs \subseteq authReqs' /\ authOutcome' = authOutcome) =>
          (localStorage' = localStorage /\ authState' = authState)]_vars

C8_Witness ==
  /\ authOutcome = outcome("login", "ok", "next", "jwt-2")
  /\ localStorage = [access_token |-> "jwt-2", user_email |-> "b@x"]
  /\ authState = [isAuthenticated |-> TRUE, accessToken |-> "jwt-2", userEmail |-> "b@x"]

\* the logout request is answered in this step
LogoutAnswered == logoutRequest \in authReqs /\ logoutRequest \notin authReqs'

\* C9: when the logout request is answered, with success or with failure, the
\* token and email keys are removed from localStorage and authState becomes
\* {false, null, null}; on failure the subscriber receives the error.
C9_LogoutAlwaysClears ==
  [][LogoutAnswered =>
       /\ localStorage' = [access_token |-> NoItem, user_email |-> NoItem]
       /\ authState' = [isAuthenticated |-> FALSE, accessToken |-> NoItem,
                        userEmail |-> NoItem]
       /\ authOutcome'.kind = "logout"
       /\ authOutcome'.http \in {"ok", "failed"}
       /\ authOutcome'.result = IF authOutcome'.http = "failed" THEN "error" ELSE "next"]_vars

C9_Witness ==
  /\ authOutcome = outcome("logout", "failed", "error", NoItem)
  /\ localStorage = [access_token |-> NoItem, user_email |-> NoItem]
  /\ authState = [isAuthenticated |-> FALSE, accessToken |-> NoItem, userEmail |-> NoItem]

\* the path of a request URL: the pathname of an absolute URL, and of a
\* relative one what precedes its query and fragment
RequestPath(url) ==
  IF StartsWith(url, sHttp) THEN pathname(url)
  ELSE SubSeq(url, 1, IndexOfAny(url, {"?", "#"}, 1) - 1)

ConnectEnds == conn' # conn /\ conn'.pc \in ConnEnded

\* the cases in which connectWallet is said to fail, read from the answers
\* the invocation got
NoAccountReturned(c) ==
  c.accounts \in {NullAccounts, ProviderError} \/ Len(c.accounts) = 0
SaidToFail(c) ==
  \/ ~provider
  \/ c.permission = UserRejected
  \/ c.accounts # NoAnswer /\ NoAccountReturned(c)

\* connectWallet failed and left the stored address alone
FailedClean ==
  /\ conn'.pc = "thrown"
  /\ walletAddressItem' = walletAddressItem
  /\ conn'.permission = UserRejected => "eth_requestAccounts" \notin conn'.asked

\* connectWallet stored the first account and returned it with the chain
ReturnedConnection ==
  /\ conn'.pc = "returned"
  /\ walletAddressItem' = conn'.accounts[1]
  /\ conn'.result.address = conn'.accounts[1]
  /\ conn'.result.chainId = conn'.chainId
  /\ conn'.result.networkName =
       (IF conn'.chainId = UndefinedChain
           \/ toLowerCase(conn'.chainId) \notin DOMAIN NETWORK_MAP
        THEN "Unknown Network" ELSE NETWORK_MAP[toLowerCase(conn'.chainId)])

\* C11: connectWallet fails without persisting an address when no provider
\* is present, when the permission request is rejected with code 4001
\* (eth_requestAccounts is then never requested), when no account is
\* returned, or when the eth_chainId request fails; otherwise, also after a
\* permission request that failed with another error, it persists the first
\* account and returns it with the chain id and the network name.
C11_ConnectWallet ==
  [][ConnectEnds =>
       IF SaidToFail(conn') \/ conn'.chainId = ProviderError
       THEN FailedClean ELSE ReturnedConnection]_vars

C11_Witness ==
  /\ conn.pc = "returned"
  /\ conn.force
  /\ conn.permission = RequestPending
  /\ conn.accounts = <<OtherAddress, Address>>
  /\ walletAddressItem = OtherAddress
  /\ conn.result.networkName = "Unknown Network"
  /\ conn.result.chainId = <<"0", "x", "5", "3", "9">>

\* C11 as stated: every invocation that got an account returns a connection
C11_AsStated ==
  [][ConnectEnds =>
       IF SaidToFail(conn') THEN FailedClean ELSE ReturnedConnection]_vars

\* the getRecentPayments answer of a poll of interval i is handled in this step
PollAnswered(i) == intervals'[i].lists < intervals[i].lists

\* C12: when a status poll merges the backend's list into the payments list,
\* a payment of the polled submission that is confirmed locally is not given
\* another status by the merge.
C12_PollMergeKeepsConfirmed ==
  [][\A i \in Subs : PollAnswered(i) =>
       \A k \in 1..Len(payments) :
          (/\ payments[k].status = "confirmed"
           /\ payments[k].id = ServerId(i)) =>
            \A j \in 1..Len(payments') :
               payments'[j].id = payments[k].id => payments'[j].status = "confirmed"]_vars

\* AppComponent.logout has been invoked and its request is not answered yet
LogoutInvoked == logoutRequest \in authReqs

\* C13: once logout() has been invoked, paymentPollingIntervals is empty and
\* no interval is left that could fire a poll, whatever responses of
\* submissions were outstanding at the time.
C13_LogoutClearsPolling ==
  LogoutInvoked =>
    /\ paymentPollingIntervals = {}
    /\ \A i \in Subs : intervals[i].state # "active"

\* C14: in every reachable state in which the user is not authenticated,
\* walletState.connected is false.
C14_WalletClearedWhenLoggedOut ==
  ~isAuthenticated => ~walletState.connected

\* the invocation has set submittingPayment to true and has not returned
Submitting(s) == sub[s].pc \notin FinishedPcs \cup {"init"}

\* C15: provided every provider and backend request eventually responds,
\* every submitPayment invocation that set submittingPayment to true
\* eventually returns with submittingPayment set back to false.
C15_SubmittingEventuallyFalse ==
  \A s \in Subs :
     Submitting(s) ~> (sub[s].pc \in FinishedPcs /\ ~submittingPayment)

C15_Witness ==
  \E s \in Subs :
    /\ sub[s].pc = "backendFailed"
    /\ sub[s].intent = TxHashOf(s)
    /\ ~submittingPayment
    /\ \E k \in EntriesOf(payments, PendingId(s)) : payments[k].status = "pending"

\* C16: submittingPayment is true in every state in which some submitPayment
\* invocation has passed its validation checks and has not yet finished.
C16_SubmittingWhileInProgress ==
  (\E s \in Subs : Submitting(s)) => submittingPayment

\* a loadRecentPayments request is answered in this step
LoadAnswered == loads' < loads

\* the existing payments the merge is said to keep: pending, and matching no
\* backend item by id or by transaction hash
KeptLocal(existing, items) ==
  { existing[k] : k \in { n \in 1..Len(existing) :
      /\ existing[n].status = "pending"
      /\ \A j \in 1..Len(items) :
           /\ items[j].id # existing[n].id
           /\ ~(/\ items[j].transaction_hash # NoHash
                /\ items[j].transaction_hash = existing[n].transaction_hash) } }

\* result holds the newest PaymentsShown of the backend items and the kept
\* local payments, newest first
MergedAsStated(existing, items, result) ==
  LET all == {items[j] : j \in 1..Len(items)} \cup KeptLocal(existing, items)
      shown == {result[i] : i \in 1..Len(result)}
  IN  /\ Len(result) = Min(Cardinality(all), PaymentsShown)
      /\ Cardinality(shown) = Len(result)
      /\ shown \subseteq all
      /\ \A i, j \in 1..Len(result) : i < j => result[i].createdAt >= result[j].createdAt
      /\ \A p \in all \ shown : \A i \in 1..Len(result) : result[i].createdAt >= p.createdAt

\* C17: the answer to loadRecentPayments either leaves payments unchanged (an
\* empty list, a failed request) or sets it to the backend items plus exactly
\* the local pending payments that match no backend item by id or transaction
\* hash, sorted newest first and truncated to 10.
C17_LoadMergesRecent ==
  [][LoadAnswered =>
       \/ payments' = payments
       \/ \E items \in RecentLists \cup {FullPage} :
            Len(items) > 0 /\ MergedAsStated(payments, items, payments')]_vars

C17_Witness ==
  /\ isAuthenticated
  /\ Len(payments) = PaymentsShown
  /\ payments[1].id = PendingId(1)
  /\ payments[1].status = "pending"
  /\ payments[2] = FullPage[1]
  /\ payments[PaymentsShown] = FullPage[PaymentsShown - 1]

\* the error handler of createPaymentIntent of invocation s runs in this step
BackendFails(s) == sub[s].pc = "awaitBackend" /\ sub'[s].pc = "backendFailed"

\* C18: when createPaymentIntent fails, the entry of a payment confirmed
\* on-chain stays confirmed and any other entry of the submission is set to
\* pending; submittingPayment is reset to false and no polling is started;
\* an invocation that ended this way never has its entry marked failed.
C18_BackendErrorKeepsStatus ==
  [][\A s \in Subs :
       /\ BackendFails(s) =>
            /\ Len(payments') = Len(payments)
            /\ \A k \in EntriesOf(payments, PendingId(s)) :
                 /\ payments'[k].id = PendingId(s)
                 /\ payments'[k].transaction_hash = TxHashOf(s)
                 /\ payments'[k].status =
                      IF sub[s].transactionConfirmed THEN "confirmed" ELSE "pending"
            /\ ~submittingPayment'
            /\ intervals' = intervals
            /\ paymentPollingIntervals' = paymentPollingIntervals
       /\ sub'[s].pc = "backendFailed" =>
            \A k \in EntriesOf(payments', PendingId(s)) : payments'[k].status # "failed"]_vars

C18_Witness ==
  \E s \in Subs :
    /\ sub[s].pc = "backendFailed"
    /\ ~submittingPayment
    /\ intervals[s].state = "none"
    /\ \E k \in EntriesOf(payments, PendingId(s)) :
         /\ payments[k].status = "confirmed"
         /\ payments[k].transaction_hash = TxHashOf(s)

\* C19: authState.isAuthenticated is true if and only if an access token is
\* stored in localStorage, and then authState.accessToken is the stored token.
C19_AuthStateMatchesStorage ==
  /\ isAuthenticated <=> localStorage.access_token # NoItem
  /\ isAuthenticated => authState.accessToken = localStorage.access_token

\* the payment ids whose interval is active
ActiveIds == { intervals[i].paymentId : i \in { n \in Subs : intervals[n].state = "active" } }

\* C20: at most one polling interval is active per payment id, and
\* paymentPollingIntervals holds exactly the payment ids whose interval is
\* still active.
C20_OneIntervalPerPayment ==
  /\ \A i, j \in Subs :
       (/\ i # j
        /\ intervals[i].state = "active"
        /\ intervals[j].state = "active") => intervals[i].paymentId # intervals[j].paymentId
  /\ { e[1] : e \in paymentPollingIntervals } = ActiveIds

\* the invocation of AppComponent.connectWallet takes a step
AppConnectSteps == appConn' # appConn

\* the address is among the user's wallets, or the backend answered the signature
\* request with success
LinkedToUser(c) == c.linked \/ c.link = "success"

\* C21: AppComponent.connectWallet sets walletState.connected to true only
\* when the user is authenticated, the returned address has 42 characters and
\* the address is linked to the user (already, or by a successful signature
\* request); on every other outcome walletState is unchanged, and
\* connectingWallet is false once the call has finished.
C21_AppConnectWallet ==
  [][AppConnectSteps =>
       /\ IF appConn'.pc = "connected"
            THEN /\ walletState'.connected
                 /\ isAuthenticated
                 /\ lengthOf(walletState'.address) = AddressChars
                 /\ LinkedToUser(appConn')
            ELSE walletState' = walletState
       /\ appConn'.pc \in AppConnEnded => ~connectingWallet']_vars

\* the scheme and authority of an absolute URL, <<>> for a relative one
OriginOf(url) ==
  IF StartsWith(url, sHttp)
    THEN SubSeq(url, 1, IndexOfAny(url, {"/", "?", "#"}, IndexOfAny(url, {":"}, 1) + 3) - 1)
    ELSE <<>>

\* C22: a request to a host other than the backend's, such as the request
\* of getExchangeRates, never carries the Authorization header.
C22_TokenOnlyToBackend ==
  (sent.url # <<>> /\ OriginOf(sent.url) \notin {<<>>, sOrigin}) => sent.authorization = NoItem

\* the ids of demoPayments
DemoIds == { demoPayments[k].id : k \in 1..Len(demoPayments) }

\* C23: once an authenticated user's loadRecentPayments has received a
\* non-empty backend list (the list is merged into payments), the payments
\* list contains no demo entry.
C23_NoDemoAfterLoad ==
  [][(LoadAnswered /\ isAuthenticated /\ payments' # payments)
       => \A k \in 1..Len(payments') : payments'[k].id \notin DemoIds]_vars

\* m * 10^(e + 18) in hexadecimal: the wei of the decimal amount m * 10^e ETH
ExactWeiHex(amt) ==
  <<"0", "x">> \o ToString16(BigPow10(BigFromInt(amt[1]), amt[2] + WeiDecimals))

\* C24: the value convertToWei gives, which is the value sent in
\* eth_sendTransaction, is the amount times 10^18 as a 0x-prefixed
\* hexadecimal string, and for a currency other than ETH it is the value
\* for the same amount of ETH.
C24_ConvertToWei ==
  \A s \in Subs :
    sub[s].amountHex # <<>> =>
      /\ sub[s].amountHex = ExactWeiHex(sub[s].amt)
      /\ sub[s].amountHex = weiOfForm[sub[s].amt, "ETH"].hex

====
